---- MODULE Spec2Model ----
(***************************************************************************)
(* Model of MegaDPlatform (src/src/module.ts): the MQTT <-> on/off light   *)
(* bridge.  Strings are sequences of one-character strings so that split,  *)
(* trim, parseInt and template formatting are computed, not assumed.       *)
(***************************************************************************)
EXTENDS Integers, Sequences, FiniteSets, TLC

\* ---------------------------------------------------------------- bounds
MaxStarts == 2       \* onStart invocations explored when onStart is re-invoked
MaxShutdowns == 2    \* onShutdown invocations explored

\* ------------------------------------------------------ string primitives
S_alex == <<"a", "l", "e", "x">>
S_foo == <<"f", "o", "o">>
S_cmd == <<"c", "m", "d">>
S_megad_ == <<"m", "e", "g", "a", "d", "_">>
Slash == <<"/">>

WhiteSpace == {" ", "\n", "\t"}

DecDigits == <<"0", "1", "2", "3", "4", "5", "6", "7", "8", "9">>

\* value of a character as a digit in radix 16, or -1
DigitValue(c) ==
  CASE c = "0" -> 0 [] c = "1" -> 1 [] c = "2" -> 2 [] c = "3" -> 3
    [] c = "4" -> 4 [] c = "5" -> 5 [] c = "6" -> 6 [] c = "7" -> 7
    [] c = "8" -> 8 [] c = "9" -> 9
    [] c \in {"a", "A"} -> 10 [] c \in {"b", "B"} -> 11
    [] c \in {"c", "C"} -> 12 [] c \in {"d", "D"} -> 13
    [] c \in {"e", "E"} -> 14 [] c \in {"f", "F"} -> 15
    [] OTHER -> -1

Tail2(s) == SubSeq(s, 3, Len(s))

RECURSIVE TrimStart(_)
TrimStart(s) ==
  IF s # <<>> /\ Head(s) \in WhiteSpace THEN TrimStart(Tail(s)) ELSE s

RECURSIVE TrimEnd(_)
TrimEnd(s) ==
  IF s # <<>> /\ s[Len(s)] \in WhiteSpace
  THEN TrimEnd(SubSeq(s, 1, Len(s) - 1)) ELSE s

\* String.prototype.trim
Trim(s) == TrimEnd(TrimStart(s))

\* String.prototype.split with a one-character separator
RECURSIVE SplitFrom(_, _, _)
SplitFrom(s, sep, cur) ==
  IF s = <<>> THEN <<cur>>
  ELSE IF Head(s) = sep THEN <<cur>> \o SplitFrom(Tail(s), sep, <<>>)
  ELSE SplitFrom(Tail(s), sep, Append(cur, Head(s)))

Split(s, sep) == SplitFrom(s, sep, <<>>)

\* longest prefix of digits of the radix, folded into a number;
\* n counts the digits consumed
RECURSIVE ParseDigits(_, _, _, _)
ParseDigits(s, radix, acc, n) ==
  IF s # <<>> /\ DigitValue(Head(s)) >= 0 /\ DigitValue(Head(s)) < radix
  THEN ParseDigits(Tail(s), radix, acc * radix + DigitValue(Head(s)), n + 1)
  ELSE [val |-> acc, count |-> n]

NaN == [nan |-> TRUE, val |-> 0]
Num(v) == [nan |-> FALSE, val |-> v]

\* parseInt(string) without a radix argument (ECMAScript 19.2.5)
ParseInt(str) ==
  LET s0 == TrimStart(str)
      neg == s0 # <<>> /\ Head(s0) = "-"
      s1 == IF s0 # <<>> /\ Head(s0) \in {"+", "-"} THEN Tail(s0) ELSE s0
      hex == Len(s1) >= 2 /\ s1[1] = "0" /\ s1[2] \in {"x", "X"}
      s2 == IF hex THEN Tail2(s1) ELSE s1
      r == ParseDigits(s2, IF hex THEN 16 ELSE 10, 0, 0)
  IN  IF r.count = 0 THEN NaN
      ELSE Num(IF neg THEN 0 - r.val ELSE r.val)

\* Number to decimal string, as a template literal formats an integer
RECURSIVE NatToStr(_)
NatToStr(n) ==
  IF n < 10 THEN <<DecDigits[n + 1]>>
  ELSE NatToStr(n \div 10) \o <<DecDigits[(n % 10) + 1]>>

NumToStr(n) == IF n < 0 THEN <<"-">> \o NatToStr(0 - n) ELSE NatToStr(n)

\* ------------------------------------------------------------ input sets
MqttDefaultBroker == "mqtt://localhost:1883"

\* config.mqtt.broker is a string, "" standing for a missing (falsy) broker;
\* config.devices is a list of ids (names are used in log lines alone) or
\* is missing
Undefined == [defined |-> FALSE, list |-> <<>>]
Defined(l) == [defined |-> TRUE, list |-> l]

\* the bounds the config schema documents for a device id
MinDeviceId == 1
MaxDeviceId == 999

\* the configurations explored: nothing configured, an empty device list,
\* two devices, one device whose id is above the documented maximum;
\* unregisterOnShutdown starts false as in the test's mockConfig
Configs ==
  { [broker |-> "", devices |-> Undefined, unregisterOnShutdown |-> FALSE],
    [broker |-> "mqtt://broker:1883", devices |-> Defined(<<>>),
     unregisterOnShutdown |-> FALSE],
    [broker |-> "mqtt://broker:1883", devices |-> Defined(<<11, 2>>),
     unregisterOnShutdown |-> FALSE],
    [broker |-> "mqtt://broker:1883", devices |-> Defined(<<MaxDeviceId + 1>>),
     unregisterOnShutdown |-> FALSE] }

Topic(ns, seg) == ns \o Slash \o seg

\* topics of inbound messages
Topics ==
  { Topic(S_alex, <<"1", "1">>),            \* alex/11
    Topic(S_alex, <<"2">>),                 \* alex/2
    Topic(S_alex, <<"9", "9">>),            \* alex/99
    Topic(S_foo, <<"1", "1">>),             \* foo/11
    Topic(S_alex, <<"a", "b", "c">>),       \* alex/abc
    Topic(S_alex, <<"1", "1", "a", "b">>),  \* alex/11ab
    Topic(S_alex, <<"2", ".", "5">>),       \* alex/2.5
    Topic(S_alex, <<"0", "x", "b">>),       \* alex/0xb
    Topic(S_alex, <<>>),                    \* alex/
    Topic(S_alex, <<"1", "1", "/", "x">>),  \* alex/11/x
    S_alex,                                 \* alex
    Topic(S_alex, S_cmd) }                  \* alex/cmd

\* payloads of inbound messages
Payloads ==
  { <<"1">>, <<"0">>, <<>>, <<"o", "n">>, <<" ", "1", "\n">> }

\* inbound messages: every topic with payload "1", every payload on
\* alex/11, and "0" on alex/2
InboundMessages ==
  (Topics \X {<<"1">>})
    \cup ({Topic(S_alex, <<"1", "1">>)} \X Payloads)
    \cup {<<Topic(S_alex, <<"2">>), <<"0">>>>}

\* ------------------------------------------------------------------ state
VARIABLES
  config,       \* this.config: broker, devices, unregisterOnShutdown
  megaDConfig,  \* this.megaDConfig, built by the constructor
  mqttClient,   \* this.mqttClient: 0 is null, else an index into clients
  clients,      \* every client mqtt.connect has returned
  devices,      \* registered endpoints, one per uniqueId (getDevices())
  start,        \* the onStart invocation: position, device index, invocations so far
  shuts,        \* onShutdown invocations: position
  lastOp,       \* the operation performed by the last step
  lastLog,      \* log lines written by the last step
  lastPub,      \* publish calls made by the last step
  lastSet       \* setAttribute('onOff', 'onOff', v) calls made by the last step

vars == <<config, megaDConfig, mqttClient, clients, devices, start, shuts,
          lastOp, lastLog, lastPub, lastSet>>

\* a log line; info lines are kept for the message and command handlers only
Log(level, msg, arg) == [level |-> level, msg |-> msg, arg |-> arg]

\* an operation: its name, the device id or client it is about, the
\* commanded state, and the topic and payload of a message
Op(name, dev, st) ==
  [op |-> name, dev |-> dev, state |-> st, topic |-> <<>>, payload |-> <<>>]

MessageOp(c, topic, payload) ==
  [op |-> "message", dev |-> c, state |-> -1, topic |-> topic, payload |-> payload]

NoOp == Op("none", 0, -1)

\* ------------------------------------------------------------ constructor
\* config.mqtt?.broker || 'mqtt://localhost:1883'
BrokerOrDefault(b) == IF b # "" THEN b ELSE MqttDefaultBroker

\* config.devices || [{ id: 11, ... }]
DevicesOrDefault(d) == IF d.defined THEN d.list ELSE <<11>>

Constructor(cfg) ==
  [broker |-> BrokerOrDefault(cfg.broker), devices |-> DevicesOrDefault(cfg.devices)]

Init ==
  /\ config \in Configs
  /\ megaDConfig = Constructor(config)
  /\ mqttClient = 0
  /\ clients = <<>>
  /\ devices = {}
  /\ start = [pc |-> "idle", i |-> 0, count |-> 0]
  /\ shuts = [k \in 1..MaxShutdowns |-> [pc |-> "idle"]]
  /\ lastOp = NoOp
  /\ lastLog = <<>>
  /\ lastPub = <<>>
  /\ lastSet = <<>>

\* ---------------------------------------------------------------- devices
\* uniqueStorageKey `megad_${deviceId}`, the key updateDeviceState looks up
UniqueId(deviceId) == S_megad_ \o NumToStr(deviceId)

\* new MatterbridgeEndpoint(onOffLight, ...) with its required clusters:
\* an on/off light that starts off
NewLight(deviceId) ==
  [uniqueId |-> UniqueId(deviceId), deviceId |-> deviceId,
   onOff |-> FALSE, hasOnOff |-> TRUE]

\* registerDevice: the registry keeps one endpoint per uniqueId
RegisterDevice(devs, light) ==
  {d \in devs : d.uniqueId # light.uniqueId} \cup {light}

\* ---------------------------------------------------------- inbound path
\* the payload compared without trimming
IsOnNoTrim(state) == state = <<"1">>

\* state.trim() === '1'
IsOn(state) == Trim(state) = <<"1">>

\* an updateDeviceState that materializes a device it does not find and
\* applies the state to it
updateDeviceStateCreates(deviceId, state, devs) ==
  LET found == {d \in devs : d.uniqueId = UniqueId(deviceId)}
      device == IF found = {} THEN NewLight(deviceId) ELSE CHOOSE d \in found : TRUE
  IN  [devices |-> (devs \ {device}) \cup {[device EXCEPT !.onOff = IsOn(state)]},
       set |-> <<[uniqueId |-> device.uniqueId, value |-> IsOn(state)]>>,
       log |-> <<>>]

\* updateDeviceState with a lookup that does not compare the uniqueId
updateDeviceStateAnyDevice(deviceId, state, devs) ==
  IF devs = {}
  THEN [devices |-> devs, set |-> <<>>,
        log |-> <<Log("warn", "Device with ID not found", NumToStr(deviceId))>>]
  ELSE LET device == CHOOSE d \in devs : TRUE
       IN  [devices |-> (devs \ {device}) \cup {[device EXCEPT !.onOff = IsOn(state)]},
            set |-> <<[uniqueId |-> device.uniqueId, value |-> IsOn(state)]>>,
            log |-> <<>>]

\* updateDeviceState: the registry, the setAttribute calls and the log
\* lines after the call
updateDeviceState(deviceId, state, devs) ==
  LET found == {d \in devs : d.uniqueId = UniqueId(deviceId)}
  IN  IF found = {}
      THEN [devices |-> devs, set |-> <<>>,
            log |-> <<Log("warn", "Device with ID not found", NumToStr(deviceId))>>]
      ELSE LET device == CHOOSE d \in found : TRUE
               isOn == IsOn(state)
               updating == <<Log("info", "Updating device state to",
                                 NumToStr(deviceId) \o <<":">> \o
                                 (IF isOn THEN <<"O", "N">> ELSE <<"O", "F", "F">>))>>
           IN  IF device.hasOnOff
               THEN [devices |-> (devs \ {device}) \cup {[device EXCEPT !.onOff = isOn]},
                     set |-> <<[uniqueId |-> device.uniqueId, value |-> isOn]>>,
                     log |-> updating]
               ELSE [devices |-> devs, set |-> <<>>, log |-> updating]

\* the topic has the shape alex/<deviceId>
TopicMatches(topicParts) == Len(topicParts) = 2 /\ topicParts[1] = S_alex

\* handleMqttMessage: the registry, the setAttribute calls and the log
\* lines after the call
handleMqttMessage(topic, message, devs) ==
  LET topicParts == Split(topic, "/")
      received == <<Log("info", "MQTT message received", <<>>)>>
      dropped == [devices |-> devs, set |-> <<>>, log |-> received]
  IN  IF TopicMatches(topicParts)
      THEN LET deviceId == ParseInt(topicParts[2])
           IN  IF ~deviceId.nan
               THEN LET r == updateDeviceState(deviceId.val, message, devs)
                    IN  [devices |-> r.devices, set |-> r.set,
                         log |-> received \o r.log]
               ELSE dropped
      ELSE dropped

\* --------------------------------------------------------- outbound path
CommandTopic == Topic(S_alex, S_cmd)

\* the payload with its two fields exchanged
CommandPayloadSwapped(deviceId, state) ==
  NumToStr(state) \o <<":">> \o NumToStr(deviceId)

\* `${deviceId}:${state}`
CommandPayload(deviceId, state) == NumToStr(deviceId) \o <<":">> \o NumToStr(state)

\* sendMqttCommand: the publish calls and the log lines of the call
sendMqttCommand(deviceId, state, handle) ==
  IF handle = 0
  THEN [pub |-> <<>>,
        log |-> <<Log("error", "MQTT client not connected", <<>>)>>]
  ELSE LET commandTopic == CommandTopic
           command == CommandPayload(deviceId, state)
       IN  [pub |-> <<[client |-> handle, topic |-> commandTopic, payload |-> command]>>,
            log |-> <<Log("info", "Publishing to", commandTopic \o <<":", " ">> \o command)>>]

\* a command handler that also writes the light's on/off attribute
CommandHandlerOptimistic(d, state) ==
  /\ d \in devices
  /\ state \in {0, 1}
  /\ LET r == sendMqttCommand(d.deviceId, state, mqttClient)
     IN  /\ lastPub' = r.pub
         /\ lastLog' = r.log
  /\ devices' = (devices \ {d}) \cup {[d EXCEPT !.onOff = (state = 1)]}
  /\ lastSet' = <<[uniqueId |-> d.uniqueId, value |-> (state = 1)]>>
  /\ lastOp' = Op("command", d.deviceId, state)
  /\ UNCHANGED <<config, megaDConfig, mqttClient, clients, start, shuts>>

\* the 'on' (state = 1) or 'off' (state = 0) command handler of a registered light
CommandHandler(d, state) ==
  /\ d \in devices
  /\ state \in {0, 1}
  /\ LET r == sendMqttCommand(d.deviceId, state, mqttClient)
     IN  /\ lastPub' = r.pub
         /\ lastLog' = <<Log("info", IF state = 1 THEN "Turning ON device"
                                     ELSE "Turning OFF device",
                             NumToStr(d.deviceId))>> \o r.log
  /\ lastSet' = <<>>
  /\ lastOp' = Op("command", d.deviceId, state)
  /\ UNCHANGED <<config, megaDConfig, mqttClient, clients, devices, start, shuts>>

\* -------------------------------------------------------- MQTT transport
\* the client mqtt.connect returns: not yet connected, nothing subscribed
NewClient == [connected |-> FALSE, endCalls |-> 0, subscribed |-> {}]

\* a session is live from mqtt.connect until end is first called on it
Live(cl) == cl.endCalls = 0

\* `alex/${deviceConfig.id}`
StateTopic(deviceId) == Topic(S_alex, NumToStr(deviceId))

SeqRange(q) == {q[j] : j \in 1..Len(q)}

\* initializeMqtt: the handle, the clients and the log lines after the call
initializeMqtt(handle, cls, mcfg) ==
  IF mcfg.broker = ""
  THEN [mqttClient |-> handle, clients |-> cls,
        log |-> <<Log("warn", "MQTT broker not configured", <<>>)>>]
  ELSE [mqttClient |-> Len(cls) + 1, clients |-> Append(cls, NewClient),
        log |-> <<>>]

\* the 'connect' handler: this.mqttClient?.subscribe for every configured device
SubscribeAll(handle, cls, mcfg) ==
  IF handle = 0 THEN cls
  ELSE [cls EXCEPT ![handle].subscribed =
          @ \cup {StateTopic(id) : id \in SeqRange(mcfg.devices)}]

\* 'connect' event of client c: the handler subscribes
MqttConnect(c) ==
  /\ c \in 1..Len(clients)
  /\ Live(clients[c])
  /\ ~clients[c].connected
  /\ clients' = SubscribeAll(mqttClient, [clients EXCEPT ![c].connected = TRUE],
                             megaDConfig)
  /\ lastLog' = <<>>
  /\ lastOp' = Op("connect", c, -1)
  /\ lastPub' = <<>>
  /\ lastSet' = <<>>
  /\ UNCHANGED <<config, megaDConfig, mqttClient, devices, start, shuts>>

\* an 'error' handler that gives up the session handle
MqttErrorResets(c) ==
  /\ c \in 1..Len(clients)
  /\ Live(clients[c])
  /\ \E drop \in BOOLEAN :
       clients' = [clients EXCEPT ![c].connected = @ /\ ~drop]
  /\ mqttClient' = 0
  /\ lastLog' = <<Log("error", "MQTT error", <<>>)>>
  /\ lastOp' = Op("error", c, -1)
  /\ lastPub' = <<>>
  /\ lastSet' = <<>>
  /\ UNCHANGED <<config, megaDConfig, devices, start, shuts>>

\* 'error' event of client c: logged; the connection may or may not survive
MqttError(c) ==
  /\ c \in 1..Len(clients)
  /\ Live(clients[c])
  /\ \E drop \in BOOLEAN :
       clients' = [clients EXCEPT ![c].connected = @ /\ ~drop]
  /\ lastLog' = <<Log("error", "MQTT error", <<>>)>>
  /\ lastOp' = Op("error", c, -1)
  /\ lastPub' = <<>>
  /\ lastSet' = <<>>
  /\ UNCHANGED <<config, megaDConfig, mqttClient, devices, start, shuts>>

\* 'message' event of client c
MqttMessage(c, topic, message) ==
  /\ c \in 1..Len(clients)
  /\ Live(clients[c])
  /\ clients[c].connected
  /\ LET r == handleMqttMessage(topic, message, devices)
     IN  /\ devices' = r.devices
         /\ lastSet' = r.set
         /\ lastLog' = r.log
  /\ lastOp' = MessageOp(c, topic, message)
  /\ lastPub' = <<>>
  /\ UNCHANGED <<config, megaDConfig, mqttClient, clients, start, shuts>>

\* -------------------------------------------------------------- onStart
\* the lights createDevices registers, in order
LightIds(mcfg) == IF Len(mcfg.devices) = 0 THEN <<11>> ELSE mcfg.devices

SetStart(pc, i) == start' = [start EXCEPT !.pc = pc, !.i = i]

\* onStart is invoked: runs up to `await this.ready`
OnStart ==
  /\ start.pc = "idle"
  /\ start' = [pc |-> "ready", i |-> 0, count |-> 1]
  /\ lastLog' = <<>>
  /\ lastOp' = Op("onStart", 0, -1)
  /\ lastPub' = <<>>
  /\ lastSet' = <<>>
  /\ UNCHANGED <<config, megaDConfig, mqttClient, clients, devices, shuts>>

\* onStart is invoked again on the same instance after it has returned
OnStartAgain ==
  /\ start.pc = "done"
  /\ start.count < MaxStarts
  /\ start' = [pc |-> "ready", i |-> 0, count |-> start.count + 1]
  /\ lastLog' = <<>>
  /\ lastOp' = Op("onStart", 0, -1)
  /\ lastPub' = <<>>
  /\ lastSet' = <<>>
  /\ UNCHANGED <<config, megaDConfig, mqttClient, clients, devices, shuts>>

\* this.ready resolved: runs up to `await this.clearSelect()`
OnStartReady ==
  /\ start.pc = "ready"
  /\ SetStart("clearSelect", 0)
  /\ lastLog' = <<>>
  /\ lastOp' = Op("clearSelect", 0, -1)
  /\ lastPub' = <<>>
  /\ lastSet' = <<>>
  /\ UNCHANGED <<config, megaDConfig, mqttClient, clients, devices, shuts>>

\* onStart going on to createDevices without having run initializeMqtt
OnStartInitializeMqttSkipped ==
  /\ start.pc = "clearSelect"
  /\ SetStart("initializeMqtt", 0)
  /\ lastLog' = <<>>
  /\ lastOp' = Op("initializeMqtt", 0, -1)
  /\ lastPub' = <<>>
  /\ lastSet' = <<>>
  /\ UNCHANGED <<config, megaDConfig, mqttClient, clients, devices, shuts>>

\* clearSelect resolved: initializeMqtt runs to its end, then is awaited
OnStartInitializeMqtt ==
  /\ start.pc = "clearSelect"
  /\ LET r == initializeMqtt(mqttClient, clients, megaDConfig)
     IN  /\ mqttClient' = r.mqttClient
         /\ clients' = r.clients
         /\ lastLog' = r.log
  /\ SetStart("initializeMqtt", 0)
  /\ lastOp' = Op("initializeMqtt", 0, -1)
  /\ lastPub' = <<>>
  /\ lastSet' = <<>>
  /\ UNCHANGED <<config, megaDConfig, devices, shuts>>

\* initializeMqtt resolved: createDevices builds the first light and
\* awaits its registerDevice
OnStartCreateDevices ==
  /\ start.pc = "initializeMqtt"
  /\ SetStart("registerDevice", 1)
  /\ lastLog' = <<>>
  /\ lastOp' = Op("createDevices", 0, -1)
  /\ lastPub' = <<>>
  /\ lastSet' = <<>>
  /\ UNCHANGED <<config, megaDConfig, mqttClient, clients, devices, shuts>>

\* registerDevice of light i resolved: the light is registered; the loop
\* goes on to the next light or onStart returns
OnStartRegistered ==
  /\ start.pc = "registerDevice"
  /\ LET ids == LightIds(megaDConfig)
         i == start.i
     IN  /\ devices' = RegisterDevice(devices, NewLight(ids[i]))
         /\ lastOp' = Op("registerDevice", ids[i], -1)
         /\ IF i < Len(ids) THEN SetStart("registerDevice", i + 1)
            ELSE SetStart("done", 0)
  /\ lastLog' = <<>>
  /\ lastPub' = <<>>
  /\ lastSet' = <<>>
  /\ UNCHANGED <<config, megaDConfig, mqttClient, clients, shuts>>

\* ------------------------------------------------------------ onShutdown
\* mqttClient.endAsync() is called on client c
EndClient(cls, c) ==
  [cls EXCEPT ![c].endCalls = @ + 1, ![c].connected = FALSE]

SetShut(k, pc) == shuts' = [shuts EXCEPT ![k].pc = pc]

\* onShutdown is invoked, at any point after onStart has been: runs up to
\* `await this.mqttClient.endAsync()`, or with no client up to
\* `await super.onShutdown(reason)`
OnShutdown(k) ==
  /\ shuts[k].pc = "idle"
  /\ start.pc # "idle"
  /\ k > 1 => shuts[k - 1].pc # "idle"
  /\ IF mqttClient # 0
     THEN /\ clients' = EndClient(clients, mqttClient)
          /\ SetShut(k, "endAsync")
     ELSE /\ clients' = clients
          /\ SetShut(k, "super")
  /\ lastLog' = <<>>
  /\ lastOp' = Op("onShutdown", 0, -1)
  /\ lastPub' = <<>>
  /\ lastSet' = <<>>
  /\ UNCHANGED <<config, megaDConfig, mqttClient, devices, start>>

\* endAsync resolved: this.mqttClient = null, then super.onShutdown is awaited
OnShutdownEnded(k) ==
  /\ shuts[k].pc = "endAsync"
  /\ mqttClient' = 0
  /\ SetShut(k, "super")
  /\ lastLog' = <<>>
  /\ lastOp' = Op("endAsyncResolved", 0, -1)
  /\ lastPub' = <<>>
  /\ lastSet' = <<>>
  /\ UNCHANGED <<config, megaDConfig, clients, devices, start>>

\* onShutdown deregistering whatever unregisterOnShutdown says
OnShutdownSuperAlways(k) ==
  /\ shuts[k].pc = "super"
  /\ SetShut(k, "unregister")
  /\ lastLog' = <<>>
  /\ lastOp' = Op("superShutdown", 0, -1)
  /\ lastPub' = <<>>
  /\ lastSet' = <<>>
  /\ UNCHANGED <<config, megaDConfig, mqttClient, clients, devices, start>>

\* super.onShutdown resolved: unregisterAllDevices is awaited if configured
OnShutdownSuper(k) ==
  /\ shuts[k].pc = "super"
  /\ SetShut(k, IF config.unregisterOnShutdown THEN "unregister" ELSE "done")
  /\ lastLog' = <<>>
  /\ lastOp' = Op("superShutdown", 0, -1)
  /\ lastPub' = <<>>
  /\ lastSet' = <<>>
  /\ UNCHANGED <<config, megaDConfig, mqttClient, clients, devices, start>>

\* unregisterAllDevices resolved: onShutdown returns
OnShutdownUnregistered(k) ==
  /\ shuts[k].pc = "unregister"
  /\ devices' = {}
  /\ SetShut(k, "done")
  /\ lastLog' = <<>>
  /\ lastOp' = Op("unregisterAllDevices", 0, -1)
  /\ lastPub' = <<>>
  /\ lastSet' = <<>>
  /\ UNCHANGED <<config, megaDConfig, mqttClient, clients, start>>

\* the host changes config.unregisterOnShutdown while an onShutdown awaits
\* super.onShutdown, the await after which the flag is read
SetUnregisterOnShutdown(b) ==
  /\ config.unregisterOnShutdown # b
  /\ \E k \in 1..MaxShutdowns : shuts[k].pc = "super"
  /\ config' = [config EXCEPT !.unregisterOnShutdown = b]
  /\ lastLog' = <<>>
  /\ lastOp' = Op("setUnregisterOnShutdown", 0, -1)
  /\ lastPub' = <<>>
  /\ lastSet' = <<>>
  /\ UNCHANGED <<megaDConfig, mqttClient, clients, devices, start, shuts>>

\* ------------------------------------------------------------------ system
\* the steps of onStart after its invocation
OnStartStep ==
  \/ OnStartReady
  \/ OnStartInitializeMqtt
  \/ OnStartCreateDevices
  \/ OnStartRegistered

\* the steps of onShutdown
OnShutdownStep ==
  \/ \E k \in 1..MaxShutdowns : OnShutdown(k)
  \/ \E k \in 1..MaxShutdowns : OnShutdownEnded(k)
  \/ \E k \in 1..MaxShutdowns : OnShutdownSuper(k)
  \/ \E k \in 1..MaxShutdowns : OnShutdownUnregistered(k)

\* one run of the platform: onStart once, onShutdown, transport events,
\* inbound messages and commands in any interleaving
Next ==
  \/ OnStart
  \/ OnStartStep
  \/ OnShutdownStep
  \/ \E b \in BOOLEAN : SetUnregisterOnShutdown(b)
  \/ \E c \in 1..Len(clients) : MqttConnect(c)
  \/ \E c \in 1..Len(clients) : MqttError(c)
  \/ \E c \in 1..Len(clients), im \in InboundMessages : MqttMessage(c, im[1], im[2])
  \/ \E d \in devices, st \in {0, 1} : CommandHandler(d, st)

Spec == Init /\ [][Next]_vars

\* the lifecycle when the host invokes onStart again after it has returned
NextRestart ==
  \/ OnStart
  \/ OnStartAgain
  \/ OnStartStep
  \/ OnShutdownStep
  \/ \E b \in BOOLEAN : SetUnregisterOnShutdown(b)
  \/ \E c \in 1..Len(clients) : MqttConnect(c)
  \/ \E c \in 1..Len(clients) : MqttError(c)

SpecRestart == Init /\ [][NextRestart]_vars

\* ================================================================ claims
\* state topics written out, with the device id each one names
StateTopicTable ==
  { [id |-> 11, topic |-> <<"a", "l", "e", "x", "/", "1", "1">>],
    [id |-> 2, topic |-> <<"a", "l", "e", "x", "/", "2">>],
    [id |-> 99, topic |-> <<"a", "l", "e", "x", "/", "9", "9">>] }

\* the payloads that equal "1" once surrounding whitespace is removed
OnPayloads == { <<"1">>, <<" ", "1", "\n">> }

AlexCmd == <<"a", "l", "e", "x", "/", "c", "m", "d">>

\* "<deviceId>:<state>" written out for the configured devices
ExpectedCommand(id, st) ==
  CASE id = 11 /\ st = 1 -> <<"1", "1", ":", "1">>
    [] id = 11 /\ st = 0 -> <<"1", "1", ":", "0">>
    [] id = 2 /\ st = 1 -> <<"2", ":", "1">>
    [] id = 2 /\ st = 0 -> <<"2", ":", "0">>
    [] id = 1000 /\ st = 1 -> <<"1", "0", "0", "0", ":", "1">>
    [] id = 1000 /\ st = 0 -> <<"1", "0", "0", "0", ":", "0">>
    [] OTHER -> <<>>

Registered(id) == \E d \in devices : d.deviceId = id

HasLog(lg, level, msg) == \E j \in 1..Len(lg) : lg[j].level = level /\ lg[j].msg = msg

\* C1: after a message on alex/<id> for a registered on/off device <id> has
\* been handled, exactly one attribute write was made, to that device, and
\* its onOff is TRUE exactly when the trimmed payload is "1" and FALSE for
\* every other payload.
C1_OnOffFollowsPayload ==
  \A kt \in StateTopicTable :
    (lastOp.op = "message" /\ lastOp.topic = kt.topic)
    => \A d \in devices :
         (d.deviceId = kt.id /\ d.hasOnOff)
         => /\ d.onOff = (lastOp.payload \in OnPayloads)
            /\ lastSet = <<[uniqueId |-> d.uniqueId,
                            value |-> (lastOp.payload \in OnPayloads)]>>

\* a message with whitespace around "1" has just switched device 11 on
C1_Witness ==
  /\ lastOp.op = "message"
  /\ lastOp.topic = <<"a", "l", "e", "x", "/", "1", "1">>
  /\ lastOp.payload = <<" ", "1", "\n">>
  /\ \E d \in devices : d.deviceId = 11 /\ d.onOff
  /\ Len(lastSet) = 1

\* C2: a command handler firing while a session handle exists makes exactly
\* one publish call, on alex/cmd, with payload "<deviceId>:1" (on) or
\* "<deviceId>:0" (off) for its own device; nothing else is ever published.
C2_CommandPublishedOnce ==
  /\ (lastOp.op = "command" /\ mqttClient # 0)
     => lastPub = <<[client |-> mqttClient, topic |-> AlexCmd,
                     payload |-> ExpectedCommand(lastOp.dev, lastOp.state)]>>
  /\ \A j \in 1..Len(lastPub) :
       /\ lastOp.op = "command"
       /\ lastPub[j].topic = AlexCmd
       /\ lastPub[j].payload = ExpectedCommand(lastOp.dev, lastOp.state)

\* the off command of device 2 has just been published
C2_Witness ==
  /\ lastOp.op = "command"
  /\ lastOp.dev = 2
  /\ lastOp.state = 0
  /\ mqttClient # 0
  /\ Len(lastPub) = 1

\* C3: over any two onShutdown invocations the MQTT session is ended at most
\* once: no client ever has end called on it a second time.
C3_SessionEndedAtMostOnce ==
  \A c \in 1..Len(clients) : clients[c].endCalls <= 1

\* C4: with no mqtt.broker in the configuration no client is ever
\* constructed, the session handle stays empty, and a command handler
\* publishes nothing and logs that the client is not connected.
C4_NoBrokerNoClient ==
  config.broker = ""
  => /\ clients = <<>>
     /\ mqttClient = 0
     /\ lastPub = <<>>
     /\ lastOp.op = "command" => HasLog(lastLog, "error", "MQTT client not connected")

\* C5: a message on alex/<id> with no device <id> registered makes no
\* attribute write on any device and logs a warning.
C5_UnknownDeviceDropped ==
  \A kt \in StateTopicTable :
    (lastOp.op = "message" /\ lastOp.topic = kt.topic /\ ~Registered(kt.id))
    => /\ lastSet = <<>>
       /\ HasLog(lastLog, "warn", "Device with ID not found")

\* a message for an id that is not registered was dropped with a warning
\* while other devices were registered
C5_Witness ==
  /\ lastOp.op = "message"
  /\ lastOp.topic = <<"a", "l", "e", "x", "/", "9", "9">>
  /\ HasLog(lastLog, "warn", "Device with ID not found")
  /\ devices # {}

\* topics that are not alex/<integer>
MalformedTopics ==
  { <<"f", "o", "o", "/", "1", "1">>,
    <<"a", "l", "e", "x", "/", "a", "b", "c">>,
    <<"a", "l", "e", "x", "/", "1", "1", "a", "b">>,
    <<"a", "l", "e", "x", "/", "2", ".", "5">>,
    <<"a", "l", "e", "x", "/">>,
    <<"a", "l", "e", "x", "/", "1", "1", "/", "x">>,
    <<"a", "l", "e", "x">>,
    <<"a", "l", "e", "x", "/", "c", "m", "d">> }

\* C6: a message whose topic is not exactly alex/<integer> is dropped: it
\* makes no attribute write on any device.
C6_MalformedTopicDropped ==
  (lastOp.op = "message" /\ lastOp.topic \in MalformedTopics) => lastSet = <<>>

\* C7: at most one MQTT session is live at any time, also when onStart is
\* invoked again on the same instance.
C7_AtMostOneLiveSession ==
  Cardinality({c \in 1..Len(clients) : Live(clients[c])}) <= 1

\* C8: onShutdown is only ever invoked once onStart has been; when onStart
\* and every invoked onShutdown have returned, no MQTT session is live.
C8_NoLiveSessionAfterShutdown ==
  (/\ start.pc = "done"
   /\ shuts[1].pc = "done"
   /\ \A k \in 1..MaxShutdowns : shuts[k].pc \in {"idle", "done"})
  => \A c \in 1..Len(clients) : ~Live(clients[c])

C10_DisconnectedCommandDropped ==
  (/\ lastOp.op = "command"
   /\ mqttClient # 0
   /\ ~clients[mqttClient].connected)
  => /\ lastPub = <<>>
     /\ HasLog(lastLog, "error", "MQTT client not connected")

\* C11: onStart runs its steps in order. Until clearSelect has completed no
\* client has been constructed and no device is registered; while
\* initializeMqtt is awaited no device is registered yet; a device is only
\* ever registered once the MQTT adapter has been initialized (the client
\* constructed and the handle set by initializeMqtt).
C11_StartOrder ==
  /\ start.pc \in {"idle", "ready", "clearSelect"}
     => (clients = <<>> /\ mqttClient = 0 /\ devices = {})
  /\ start.pc = "initializeMqtt" => devices = {}
  /\ devices # {} => (clients # <<>> /\ start.pc \in {"registerDevice", "done"})
  /\ lastOp.op \in {"createDevices", "registerDevice"} => clients # <<>>
  /\ lastOp.op = "clearSelect" => start.pc = "clearSelect"
  /\ lastOp.op = "initializeMqtt" => start.pc = "initializeMqtt"
  /\ lastOp.op = "createDevices" => start.pc = "registerDevice"

\* onStart has returned: the client was constructed and both configured
\* devices are registered
C11_Witness ==
  /\ start.pc = "done"
  /\ lastOp.op = "registerDevice"
  /\ Len(clients) = 1
  /\ Registered(11)
  /\ Registered(2)

\* the suspension points of onShutdown in the order the code passes them
ShutdownSteps ==
  { <<"idle", "endAsync">>, <<"idle", "super">>, <<"endAsync", "super">>,
    <<"super", "unregister">>, <<"super", "done">>, <<"unregister", "done">> }

\* C12: every step of an onShutdown invocation follows the order end the
\* session, empty the handle, run the inherited hook, deregister. The
\* disconnect is called exactly when a handle exists at invocation; the
\* inherited hook is awaited only with the handle just found or made empty;
\* the devices are deregistered after the hook, exactly when
\* config.unregisterOnShutdown is true at that moment, and by no other step.
C12_ShutdownOrder ==
  [][\A k \in 1..MaxShutdowns :
       shuts'[k].pc # shuts[k].pc
       => /\ <<shuts[k].pc, shuts'[k].pc>> \in ShutdownSteps
          /\ shuts[k].pc = "idle"
             => /\ (shuts'[k].pc = "endAsync") = (mqttClient # 0)
                /\ mqttClient # 0
                   => clients'[mqttClient].endCalls = clients[mqttClient].endCalls + 1
          /\ shuts'[k].pc = "super" => mqttClient' = 0
          /\ shuts[k].pc = "super"
             => (shuts'[k].pc = "unregister") = config.unregisterOnShutdown
          /\ IF shuts[k].pc = "unregister" THEN devices' = {} ELSE devices' = devices
    ]_vars

\* an onShutdown that found a session has ended it, emptied the handle and,
\* the flag being true, deregistered the devices
C12_Witness ==
  /\ lastOp.op = "unregisterAllDevices"
  /\ config.unregisterOnShutdown
  /\ devices = {}
  /\ mqttClient = 0
  /\ \E c \in 1..Len(clients) : clients[c].endCalls = 1

\* the state topic of each device id a configuration can materialize
DeviceTopicTable ==
  { [id |-> 11, topic |-> <<"a", "l", "e", "x", "/", "1", "1">>],
    [id |-> 2, topic |-> <<"a", "l", "e", "x", "/", "2">>],
    [id |-> 1000, topic |-> <<"a", "l", "e", "x", "/", "1", "0", "0", "0">>] }

\* C13: once the session the handle names is connected and onStart has
\* returned, every registered device, the placeholder 11 of an empty device
\* list included, has its state topic alex/<id> among the topics subscribed
\* on that session.
C13_EveryDeviceSubscribed ==
  (/\ start.pc = "done"
   /\ mqttClient # 0
   /\ Live(clients[mqttClient])
   /\ clients[mqttClient].connected)
  => \A d \in devices :
       \E kt \in DeviceTopicTable :
         /\ kt.id = d.deviceId
         /\ kt.topic \in clients[mqttClient].subscribed

\* the same for a device list that is missing or not empty
C13_ListedDevicesSubscribed ==
  (config.devices.defined => config.devices.list # <<>>) => C13_EveryDeviceSubscribed

\* the state topics of the configured device ids, written out
ConfiguredTopics ==
  IF ~config.devices.defined
  THEN { <<"a", "l", "e", "x", "/", "1", "1">> }
  ELSE { kt.topic : kt \in { e \in DeviceTopicTable :
                               \E j \in 1..Len(config.devices.list) :
                                 config.devices.list[j] = e.id } }

\* C14: after a 'connect' event of a session, the topics subscribed on that
\* session are exactly alex/<id> for every configured device id, never
\* alex/cmd or any other topic, however often the event has fired; no
\* session is ever subscribed to anything else.
C14_ConnectSubscribesConfigured ==
  /\ lastOp.op = "connect" => clients[lastOp.dev].subscribed = ConfiguredTopics
  /\ \A c \in 1..Len(clients) : clients[c].subscribed \subseteq ConfiguredTopics

\* C15: no device is ever registered for an id outside the documented range
\* MinDeviceId..MaxDeviceId, and with such an id in the configuration onStart
\* never runs to its normal end.
C15_InvalidIdRefused ==
  /\ \A d \in devices : d.deviceId \in MinDeviceId..MaxDeviceId
  /\ (\E j \in 1..Len(megaDConfig.devices) :
        megaDConfig.devices[j] \notin MinDeviceId..MaxDeviceId)
     => start.pc # "done"

\* the device a step is about: the one its message topic alex/<id> names
\* or the one whose command handler fired
StepIsAbout(op, id) ==
  \/ /\ op.op = "message"
     /\ \E kt \in StateTopicTable \cup DeviceTopicTable :
          kt.id = id /\ kt.topic = op.topic
  \/ /\ op.op = "command"
     /\ op.dev = id

\* C16: handling an inbound message for device <id>, or a command of device
\* <id>, leaves every other registered device as it was: the same devices
\* with the same on/off state before and after the step.
C16_OtherDevicesUnchanged ==
  [][\A id \in {11, 2, 99, 1000} :
       StepIsAbout(lastOp', id)
       => {d \in devices' : d.deviceId # id} = {d \in devices : d.deviceId # id}
    ]_vars

\* a message has just switched device 11 on while device 2 is registered
\* and off
C16_Witness ==
  /\ lastOp.op = "message"
  /\ lastOp.topic = <<"a", "l", "e", "x", "/", "1", "1">>
  /\ lastOp.payload = <<"1">>
  /\ \E d \in devices : d.deviceId = 11 /\ d.onOff
  /\ \E d \in devices : d.deviceId = 2 /\ ~d.onOff

\* C17: the session handle is written only by the lifecycle: a step that
\* changes it is initializeMqtt within onStart or the resumption of
\* onShutdown after endAsync; a message, a 'connect' or 'error' event and a
\* command leave it as it was.
C17_HandleWrittenByLifecycle ==
  [][/\ lastOp'.op \in {"message", "connect", "error", "command"}
        => mqttClient' = mqttClient
     /\ mqttClient' # mqttClient
        => lastOp'.op \in {"initializeMqtt", "endAsyncResolved"}
    ]_vars

\* the 'error' event of the session the handle names has been handled and
\* the handle still names it
C17_Witness ==
  /\ lastOp.op = "error"
  /\ mqttClient # 0
  /\ mqttClient = lastOp.dev

\* onStart has initialized MQTT and the registerDevice of light <id> has not
\* completed yet
NotYetRegistered(id) ==
  LET ids == LightIds(megaDConfig)
  IN  \/ /\ start.pc = "initializeMqtt"
         /\ \E j \in 1..Len(ids) : ids[j] = id
      \/ /\ start.pc = "registerDevice"
         /\ \E j \in start.i..Len(ids) : ids[j] = id

\* C18: a message on alex/<id> handled during startup, before the
\* registerDevice of the configured device <id> has completed, makes no
\* attribute write, registers nothing and logs the not-found warning; and a
\* device that has just been registered is off, whatever message arrived
\* for it before.
C18_EarlyMessageDropped ==
  /\ \A kt \in DeviceTopicTable :
       (lastOp.op = "message" /\ lastOp.topic = kt.topic /\ NotYetRegistered(kt.id))
       => /\ lastSet = <<>>
          /\ ~Registered(kt.id)
          /\ HasLog(lastLog, "warn", "Device with ID not found")
  /\ lastOp.op = "registerDevice"
     => \A d \in devices : d.deviceId = lastOp.dev => ~d.onOff

\* during startup, with device 11 registered and device 2 not yet, an "on"
\* message for device 2 was dropped with the warning
C18_Witness ==
  /\ lastOp.op = "message"
  /\ lastOp.topic = <<"a", "l", "e", "x", "/", "2">>
  /\ start.pc = "registerDevice"
  /\ Registered(11)
  /\ ~Registered(2)
  /\ HasLog(lastLog, "warn", "Device with ID not found")

\* onStart and at least one onShutdown have returned and no onShutdown is
\* under way
ShutdownCompleted ==
  /\ start.pc = "done"
  /\ \E k \in 1..MaxShutdowns : shuts[k].pc = "done"
  /\ \A k \in 1..MaxShutdowns : shuts[k].pc \in {"idle", "done"}

\* once onShutdown has run to completion the handle is empty and a command
\* publishes nothing and logs that the client is not connected
C19_HandleEmptyAfterShutdown ==
  ShutdownCompleted
  => /\ mqttClient = 0
     /\ lastOp.op = "command"
        => (lastPub = <<>> /\ HasLog(lastLog, "error", "MQTT client not connected"))

\* no publish call is ever made on a client that end has been called on
C19_NoPublishOnEndedSession ==
  \A j \in 1..Len(lastPub) : Live(clients[lastPub[j].client])

\* C19: once onShutdown has run to completion (one onStart only) the handle
\* is empty and every command publishes nothing and logs 'MQTT client not
\* connected'; and a command handler never publishes through a session that
\* has already been ended.
C19_NoCommandAfterShutdown ==
  /\ C19_HandleEmptyAfterShutdown
  /\ C19_NoPublishOnEndedSession

====
